---- MODULE Spec2Model ----
(***************************************************************************)
(* Model of the CRM component (src/project/src/components/CRM.jsx): the    *)
(* birthday arithmetic it performs with dayjs (calculateAge,               *)
(* getDaysUntilBirthday, getUpcomingBirthdays) and its component state     *)
(* (people, loading, modalVisible, editingPerson, the form) driven by the  *)
(* asynchronous Person.list / Person.create / Person.update calls.         *)
(*                                                                         *)
(* Time: an instant is a local calendar date plus a time of day counted in *)
(* ticks, TicksPerDay ticks to the day (tick 0 is local midnight).  The    *)
(* local UTC offset is taken as fixed, so dayjs's zoneDelta correction in  *)
(* diff() is zero and a calendar day is always TicksPerDay ticks long.     *)
(***************************************************************************)
EXTENDS Integers, Sequences, FiniteSets, TLC

VARIABLES
    people,         \* useState([])    : the list of Person records shown
    loading,        \* useState(false) : the table's loading flag
    modalVisible,   \* useState(false) : whether the add/edit modal is open
    editingPerson,  \* useState(null)  : the record being edited, NoPerson for null
    form,           \* Form.useForm()  : the form's birthday field
    mounted,        \* whether the mount effect has run
    store,          \* the backend's Person collection
    listReqs,       \* Person.list() calls in flight, in the order they were started
    saveReqs,       \* Person.create()/update() calls in flight
    loads,          \* history of the Person.list() calls (for the claims only)
    now,            \* the instant dayjs() returns
    ret             \* the last date-function call and what it returned

vars == <<people, loading, modalVisible, editingPerson, form, mounted, store,
          listReqs, saveReqs, loads, now, ret>>

\* the component state and its backend, apart from the people list
uiVars == <<loading, modalVisible, editingPerson, form, mounted, store,
            listReqs, saveReqs, loads>>

-----------------------------------------------------------------------------
(* Bounds of the model *)

\* ticks per calendar day: the times of day dayjs() is sampled at
TicksPerDay == 2
\* number of consecutive calendar years dayjs() ranges over, from 2023
NumNowYears == 2
\* longest people list the upcoming-birthday filter is run on
MaxPeople == 2
\* most Person records the backend holds
MaxStore == 2
\* most Person.list() calls in flight at once
MaxListReqs == 2
\* most Person.create()/update() calls in flight at once
MaxSaveReqs == 1
\* most Person.list() calls started in one run
MaxLoads == 3

-----------------------------------------------------------------------------
(* The proleptic Gregorian calendar, as the JavaScript Date underneath     *)
(* dayjs computes it.                                                      *)

Min(a, b) == IF a < b THEN a ELSE b

IsLeap(y) == (y % 4 = 0 /\ y % 100 # 0) \/ y % 400 = 0

DaysInMonth(y, m) ==
    IF m = 2 THEN (IF IsLeap(y) THEN 29 ELSE 28)
    ELSE IF m \in {4, 6, 9, 11} THEN 30 ELSE 31

\* days from 1970-01-01 to y-m-d
DaysFromCivil(y, m, d) ==
    LET yy  == IF m <= 2 THEN y - 1 ELSE y
        era == yy \div 400
        yoe == yy - era * 400
        mp  == IF m > 2 THEN m - 3 ELSE m + 9
        doy == (153 * mp + 2) \div 5 + d - 1
        doe == yoe * 365 + yoe \div 4 - yoe \div 100 + doy
    IN  era * 146097 + doe - 719468

\* the calendar date z days after 1970-01-01
CivilFromDays(z) ==
    LET zz  == z + 719468
        era == zz \div 146097
        doe == zz - era * 146097
        yoe == (doe - doe \div 1460 + doe \div 36524 - doe \div 146096) \div 365
        doy == doe - (365 * yoe + yoe \div 4 - yoe \div 100)
        mp  == (5 * doy + 2) \div 153
        d   == doy - (153 * mp + 2) \div 5 + 1
        m   == IF mp < 10 THEN mp + 3 ELSE mp - 9
        y   == yoe + era * 400 + (IF m <= 2 THEN 1 ELSE 0)
    IN  [y |-> y, m |-> m, d |-> d]

-----------------------------------------------------------------------------
(* dayjs objects.  A valid one is a local date and a time of day; dayjs of *)
(* a string that is no date wraps JavaScript's Invalid Date.               *)

InvalidDate == [ok |-> FALSE, y |-> 0, m |-> 0, d |-> 0, t |-> 0]

At(y, m, d, t) == [ok |-> TRUE, y |-> y, m |-> m, d |-> d, t |-> t]

\* a 'YYYY-MM-DD' string as Person.birthday holds it; wf = FALSE is a string
\* that is no date
DateStr(y, m, d) == [wf |-> TRUE, y |-> y, m |-> m, d |-> d]
Malformed == [wf |-> FALSE, y |-> 0, m |-> 0, d |-> 0]

\* dayjs('YYYY-MM-DD'): local midnight of that date
parse(s) == IF s.wf THEN At(s.y, s.m, s.d, 0) ELSE InvalidDate

\* x.format('YYYY-MM-DD'): the local date, the time of day dropped
format(x) == IF x.ok THEN DateStr(x.y, x.m, x.d) ELSE Malformed

\* x.valueOf(), in ticks
valueOf(x) == DaysFromCivil(x.y, x.m, x.d) * TicksPerDay + x.t

\* a bug setYear could have: Date.setFullYear alone, which lets Feb 29 overflow
\* into Mar 1 of a non-leap year
setYear_Overflow(x, y) ==
    IF ~x.ok THEN InvalidDate
    ELSE IF x.d > DaysInMonth(y, x.m) THEN [x EXCEPT !.y = y, !.m = x.m + 1, !.d = 1]
    ELSE [x EXCEPT !.y = y]

\* x.year(y): the year is set on the first of the month, then the day of the
\* month is restored, clamped to the length of the month (Feb 29 -> Feb 28)
setYear(x, y) ==
    IF x.ok THEN [x EXCEPT !.y = y, !.d = Min(x.d, DaysInMonth(y, x.m))]
    ELSE InvalidDate

\* x.add(n, 'month'): same clamping
addMonths(x, n) ==
    LET tot == x.y * 12 + (x.m - 1) + n
        yy  == tot \div 12
        mm  == (tot % 12) + 1
    IN  [x EXCEPT !.y = yy, !.m = mm, !.d = Min(x.d, DaysInMonth(yy, mm))]

\* x.add(n, 'day'): the day of the month is moved, the time of day kept
addDays(x, n) ==
    LET c == CivilFromDays(DaysFromCivil(x.y, x.m, x.d) + n)
    IN  [x EXCEPT !.y = c.y, !.m = c.m, !.d = c.d]

\* comparisons with Invalid Date compare NaN: false
isAfter(a, b)  == a.ok /\ b.ok /\ valueOf(a) > valueOf(b)
isBefore(a, b) == a.ok /\ b.ok /\ valueOf(a) < valueOf(b)

\* Utils.absFloor of the quotient n/d, d > 0: rounds towards zero
absFloor(n, d) == IF n < 0 THEN -((-n) \div d) ELSE n \div d

\* a.diff(b, 'day')
diffDay(a, b) == absFloor(valueOf(a) - valueOf(b), TicksPerDay)

\* Utils.monthDiff(a, b) for a.date() >= b.date(), as the exact fraction
\* num/den, den > 0
monthDiffCore(a, b) ==
    LET wholeMonthDiff == (b.y - a.y) * 12 + (b.m - a.m)
        anchor  == addMonths(a, wholeMonthDiff)
        c       == valueOf(b) - valueOf(anchor) < 0
        anchor2 == addMonths(a, wholeMonthDiff + (IF c THEN -1 ELSE 1))
        den     == IF c THEN valueOf(anchor) - valueOf(anchor2)
                        ELSE valueOf(anchor2) - valueOf(anchor)
    IN  [num |-> -(wholeMonthDiff * den + (valueOf(b) - valueOf(anchor))),
         den |-> den]

\* Utils.monthDiff(a, b)
monthDiff(a, b) ==
    IF a.d < b.d
    THEN LET r == monthDiffCore(b, a) IN [num |-> -r.num, den |-> r.den]
    ELSE monthDiffCore(a, b)

\* a.diff(b, 'year') = absFloor(monthDiff(a, b) / 12)
diffYear(a, b) == LET r == monthDiff(a, b) IN absFloor(r.num, 12 * r.den)

-----------------------------------------------------------------------------
(* What a call returns: a JavaScript number or NaN.  Nothing in the        *)
(* component throws, so no other kind is ever produced.                    *)

Number(n) == [kind |-> "number", val |-> n]
NaN == [kind |-> "NaN", val |-> 0]
\* the call returned an array, held beside this marker
Array == [kind |-> "array", val |-> 0]

-----------------------------------------------------------------------------
(* The component's date functions, with the instant dayjs() returns passed *)
(* as `today`.                                                             *)

\* a bug calculateAge could have: the difference of the calendar years
calculateAge_YearsOnly(birthday, today) ==
    LET b == parse(birthday)
    IN  IF b.ok THEN Number(today.y - b.y) ELSE Number(0)

\* calculateAge: dayjs().diff(dayjs(birthday), 'year').  With an Invalid Date
\* monthDiff's arithmetic is NaN and its trailing `|| 0` turns that into 0.
calculateAge(birthday, today) ==
    LET b == parse(birthday)
    IN  IF b.ok THEN Number(diffYear(today, b)) ELSE Number(0)

\* a bug nextBirthday could have: next year's occurrence whatever the date
nextBirthday_AlwaysNextYear(birthday, today) ==
    setYear(parse(birthday), today.y + 1)

\* the occurrence getDaysUntilBirthday counts to
nextBirthday(birthday, today) ==
    LET thisYearBirthday == setYear(parse(birthday), today.y)
        nextYearBirthday == setYear(parse(birthday), today.y + 1)
    IN  IF isAfter(thisYearBirthday, today) THEN thisYearBirthday
        ELSE nextYearBirthday

\* getDaysUntilBirthday
getDaysUntilBirthday(birthday, today) ==
    LET target == nextBirthday(birthday, today)
    IN  IF target.ok THEN Number(diffDay(target, today)) ELSE NaN

\* today.add(30, 'day'): the length of the upcoming window
WindowDays == 30

\* the predicate getUpcomingBirthdays filters with
isUpcoming(person, today) ==
    LET nextMonth        == addDays(today, WindowDays)
        birthday         == parse(person.birthday)
        thisYearBirthday == setYear(birthday, today.y)
        nextYearBirthday == setYear(birthday, today.y + 1)
    IN  \/ isAfter(thisYearBirthday, today) /\ isBefore(thisYearBirthday, nextMonth)
        \/ isAfter(nextYearBirthday, today) /\ isBefore(nextYearBirthday, nextMonth)

\* a bug getUpcomingBirthdays could have: the matches in reverse order
getUpcomingBirthdays_Reversed(ps, today) ==
    LET r == SelectSeq(ps, LAMBDA person : isUpcoming(person, today))
    IN  [k \in 1..Len(r) |-> r[Len(r) + 1 - k]]

\* getUpcomingBirthdays: people.filter(...)
getUpcomingBirthdays(ps, today) ==
    SelectSeq(ps, LAMBDA person : isUpcoming(person, today))

-----------------------------------------------------------------------------
(* Person records and the initial component state                          *)

Person(i, b) == [id |-> i, birthday |-> b]

\* editingPerson = null
NoPerson == Person(0, Malformed)

\* an empty form field
NoValue == InvalidDate

NoLoads == [started |-> 0, overlapped |-> FALSE, failed |-> FALSE,
            answered |-> FALSE, lastData |-> <<>>]

\* no date function called yet
NoCall == [op |-> "none", i |-> 0, res |-> NaN, list |-> <<>>]

\* the useState initial values (CRM.jsx:10-14), before the mount effect
InitUI ==
    /\ loading = FALSE
    /\ modalVisible = FALSE
    /\ editingPerson = NoPerson
    /\ form = NoValue
    /\ mounted = FALSE
    /\ store = <<>>
    /\ listReqs = <<>>
    /\ saveReqs = <<>>
    /\ loads = NoLoads

-----------------------------------------------------------------------------
(* The date functions applied to inputs drawn from bounded sets            *)

NowYears == 2023 .. (2023 + NumNowYears - 1)

\* every instant dayjs() is sampled at: each day of NowYears, each tick
Nows ==
    { At(y, m, d, t) : y \in NowYears, m \in 1..12, d \in 1..31, t \in 0..(TicksPerDay - 1) }

ValidNows == { n \in Nows : n.d <= DaysInMonth(n.y, n.m) }

\* birthdays of a single record: ordinary dates, month ends, the leap day, a
\* birthday inside the sampled years, one after them, and a string that is
\* no date
BirthdayPool ==
    { DateStr(1985, 3, 15), DateStr(1990, 1, 5), DateStr(2000, 2, 29),
      DateStr(1999, 12, 31), DateStr(1996, 1, 31), DateStr(2001, 3, 1),
      DateStr(1988, 2, 28), DateStr(2023, 7, 1), DateStr(2030, 6, 15),
      Malformed }

\* birthdays of the records of longer lists
ListPool == { DateStr(1985, 3, 15), DateStr(1990, 1, 5), DateStr(2000, 2, 29) }

PeopleLists ==
    UNION { { [i \in 1..n |-> Person(i, f[i])] : f \in [1..n -> ListPool] } :
            n \in 0..MaxPeople }

InitEngine ==
    /\ InitUI
    /\ ret = NoCall
    /\ \/ /\ now \in ValidNows
          /\ people \in { <<Person(1, b)>> : b \in BirthdayPool }
       \/ /\ now \in { n \in ValidNows : n.y = 2024 }
          /\ people \in PeopleLists

\* a table cell renders calculateAge(record.birthday)           (CRM.jsx:126)
CalculateAge(i) ==
    /\ ret' = [op |-> "calculateAge", i |-> i,
               res |-> calculateAge(people[i].birthday, now), list |-> <<>>]
    /\ UNCHANGED <<people, now, uiVars>>

\* a table cell renders getDaysUntilBirthday(record.birthday)   (CRM.jsx:133)
GetDaysUntilBirthday(i) ==
    /\ ret' = [op |-> "getDaysUntilBirthday", i |-> i,
               res |-> getDaysUntilBirthday(people[i].birthday, now), list |-> <<>>]
    /\ UNCHANGED <<people, now, uiVars>>

\* the render computes upcomingBirthdays                        (CRM.jsx:175)
GetUpcomingBirthdays ==
    /\ ret' = [op |-> "getUpcomingBirthdays", i |-> 0,
               res |-> Array, list |-> getUpcomingBirthdays(people, now)]
    /\ UNCHANGED <<people, now, uiVars>>

NextEngine ==
    \/ \E i \in 1..Len(people) : CalculateAge(i)
    \/ \E i \in 1..Len(people) : GetDaysUntilBirthday(i)
    \/ GetUpcomingBirthdays

SpecEngine == InitEngine /\ [][NextEngine]_vars

-----------------------------------------------------------------------------
(* Properties of the date functions                                        *)

\* the birthday the last row call was made with
Arg == people[ret.i].birthday

IsLeapDay(b) == b.m = 2 /\ b.d = 29

\* day number of today's calendar date
Today == DaysFromCivil(now.y, now.m, now.d)

\* day number of the occurrence of b's month/day in year y, Feb 29 taken as
\* Feb 28 in a non-leap year
OccurrenceDay(b, y) == DaysFromCivil(y, b.m, Min(b.d, DaysInMonth(y, b.m)))

\* calendar days from today to the next occurrence, today's own included
CalendarDaysUntil(b) ==
    IF OccurrenceDay(b, now.y) >= Today
    THEN OccurrenceDay(b, now.y) - Today
    ELSE OccurrenceDay(b, now.y + 1) - Today

\* a birthday the specification calls invalid input: no date, or after now
BadBirthday(b) == ~b.wf \/ valueOf(parse(b)) > valueOf(now)

\* C1 (as stated): getDaysUntilBirthday returns 0 if and only if today's
\* calendar date has the birthday's month and day.
C1_ZeroIffOnBirthday ==
    (ret.op = "getDaysUntilBirthday" /\ Arg.wf) =>
        ((ret.res = Number(0)) <=> (now.m = Arg.m /\ now.d = Arg.d))

\* C2 (as stated): getUpcomingBirthdays returns exactly the people whose
\* getDaysUntilBirthday, at the same instant, lies in 0..30.
C2_UpcomingIsWindow ==
    ret.op = "getUpcomingBirthdays" =>
        ret.list = SelectSeq(people, LAMBDA p :
                        LET r == getDaysUntilBirthday(p.birthday, now)
                        IN  r.kind = "number" /\ r.val \in 0..30)

\* C3 (as stated): getDaysUntilBirthday is the number of calendar days from
\* today's date to the next occurrence, whatever the time of day (16 from
\* 2024-12-20 to Jan 5, 364 from 2024-03-16 to Mar 15).
C3_CalendarDays ==
    (ret.op = "getDaysUntilBirthday" /\ Arg.wf) =>
        ret.res = Number(CalendarDaysUntil(Arg))

\* C4 (as stated): a birthday that is no date, or is later than now, makes
\* every date function signal an InvalidDateError.
C4_InvalidInputSignalled ==
    /\ (ret.op \in {"calculateAge", "getDaysUntilBirthday"} /\ BadBirthday(Arg))
            => ret.res.kind = "InvalidDateError"
    /\ (ret.op = "getUpcomingBirthdays"
            /\ \E k \in 1..Len(people) : BadBirthday(people[k].birthday))
            => ret.res.kind = "InvalidDateError"

\* C5 (as stated): for now >= b, calculateAge is now.year - b.year, minus 1
\* when now's month/day precedes b's month/day, and is never negative.
C5_CompletedBirthdays ==
    (ret.op = "calculateAge" /\ ~BadBirthday(Arg)) =>
        /\ ret.res = Number(now.y - Arg.y
                - (IF now.m < Arg.m \/ (now.m = Arg.m /\ now.d < Arg.d)
                   THEN 1 ELSE 0))
        /\ ret.res.val >= 0

\* C5 (amended): the same, with the month/day of a Feb 29 birthday taken as
\* Feb 28 when now's year is not a leap year.
C5_CompletedBirthdaysClamped ==
    (ret.op = "calculateAge" /\ ~BadBirthday(Arg)) =>
        LET occD == IF IsLeapDay(Arg) /\ ~IsLeap(now.y) THEN 28 ELSE Arg.d
        IN  /\ ret.res = Number(now.y - Arg.y
                    - (IF now.m < Arg.m \/ (now.m = Arg.m /\ now.d < occD)
                       THEN 1 ELSE 0))
            /\ ret.res.val >= 0

\* the amended case of C5: a Feb 29 birthday counted on Feb 28, 2023
C5_Witness ==
    /\ ret.op = "calculateAge"
    /\ Arg = DateStr(2000, 2, 29)
    /\ now.y = 2023 /\ now.m = 2 /\ now.d = 28
    /\ ret.res = Number(23)

\* C6: for a well-formed birthday getDaysUntilBirthday returns an integer
\* from 0 to 366.
C6_DaysInRange ==
    (ret.op = "getDaysUntilBirthday" /\ Arg.wf) =>
        (ret.res.kind = "number" /\ ret.res.val \in 0..366)

\* C6's case: the largest count, 366, is returned
C6_Witness ==
    /\ ret.op = "getDaysUntilBirthday"
    /\ Arg.wf
    /\ ret.res = Number(366)

\* C7: for a Feb 29 birthday and now in a non-leap year, calculateAge has
\* counted this year's birthday exactly when getDaysUntilBirthday counts to
\* an occurrence of the following year: both turn on the same day.
C7_LeapDayConsistent ==
    (ret.op \in {"calculateAge", "getDaysUntilBirthday"}
        /\ Arg.wf /\ IsLeapDay(Arg) /\ ~IsLeap(now.y) /\ ~BadBirthday(Arg)) =>
        LET age  == calculateAge(Arg, now).val
            days == getDaysUntilBirthday(Arg, now).val
        IN  /\ age \in {now.y - Arg.y - 1, now.y - Arg.y}
            /\ (age = now.y - Arg.y) <=> (CivilFromDays(Today + days).y > now.y)

\* C7's case: on Feb 28 of a non-leap year the age has turned and the
\* countdown runs to the following year
C7_Witness ==
    /\ ret.op = "getDaysUntilBirthday"
    /\ IsLeapDay(Arg) /\ Arg.wf
    /\ now.y = 2023 /\ now.m = 2 /\ now.d = 28
    /\ ret.res.val >= 365
    /\ calculateAge(Arg, now) = Number(23)

\* s is a subsequence of t: the elements of s are elements of t, in t's order
IsSubsequence(s, t) ==
    \E f \in [1..Len(s) -> 1..Len(t)] :
        /\ \A k \in 1..Len(s) : s[k] = t[f[k]]
        /\ \A j, k \in 1..Len(s) : j < k => f[j] < f[k]

\* C8: getUpcomingBirthdays returns a subsequence of people and leaves
\* people unchanged.
C8_UpcomingIsSubsequence ==
    [][ret'.op = "getUpcomingBirthdays" =>
            (people' = people /\ IsSubsequence(ret'.list, people'))]_vars

\* C8's case: two records returned, so that their order matters
C8_Witness ==
    /\ ret.op = "getUpcomingBirthdays"
    /\ Len(ret.list) = 2

-----------------------------------------------------------------------------
(* The component: its handlers, and the backend answering its calls        *)

\* the dates the user picks in the DatePicker
FormDates == { DateStr(1985, 3, 15), DateStr(2000, 2, 29) }

\* the instant the component runs at
ClockUI == At(2024, 3, 15, 1)

RemoveAt(q, k) == [j \in 1..(Len(q) - 1) |-> IF j < k THEN q[j] ELSE q[j + 1]]

Init ==
    /\ InitUI
    /\ people = <<>>
    /\ now = ClockUI
    /\ ret = NoCall

\* room for one more Person.list() call
CanLoad == Len(listReqs) < MaxListReqs /\ loads.started < MaxLoads

\* loadPeople up to its await: setLoading(true), Person.list() sent
LoadPeopleStart ==
    /\ loading' = TRUE
    /\ listReqs' = Append(listReqs,
            [id |-> loads.started + 1, served |-> FALSE, data |-> <<>>])
    /\ loads' = [loads EXCEPT !.started = @ + 1,
                              !.overlapped = @ \/ listReqs # <<>>,
                              !.answered = FALSE,
                              !.lastData = <<>>]

\* useEffect(() => { loadPeople() }, [])
Mount ==
    /\ ~mounted
    /\ CanLoad
    /\ mounted' = TRUE
    /\ LoadPeopleStart
    /\ UNCHANGED <<people, modalVisible, editingPerson, form, store, saveReqs, now, ret>>

\* the backend reads its collection for the k-th list call in flight
ServeList(k) ==
    /\ ~listReqs[k].served
    /\ listReqs' = [listReqs EXCEPT ![k].served = TRUE, ![k].data = store]
    /\ loads' = IF listReqs[k].id = loads.started
                THEN [loads EXCEPT !.answered = TRUE, !.lastData = store]
                ELSE loads
    /\ UNCHANGED <<people, loading, modalVisible, editingPerson, form, mounted,
                   store, saveReqs, now, ret>>

\* loadPeople after its await: the response of the k-th call in flight is
\* success (setPeople), success = false, or a rejection (caught); then
\* setLoading(false) whatever else is in flight
LoadPeopleDone(k, outcome) ==
    /\ outcome = "success" => listReqs[k].served
    /\ people' = IF outcome = "success" THEN listReqs[k].data ELSE people
    /\ loading' = FALSE
    /\ listReqs' = RemoveAt(listReqs, k)
    /\ loads' = IF outcome = "success" THEN loads ELSE [loads EXCEPT !.failed = TRUE]
    /\ UNCHANGED <<modalVisible, editingPerson, form, mounted, store, saveReqs, now, ret>>

\* the Add Person button: setModalVisible(true)
ShowAdd ==
    /\ mounted /\ ~modalVisible
    /\ modalVisible' = TRUE
    /\ UNCHANGED <<people, loading, editingPerson, form, mounted, store,
                   listReqs, saveReqs, loads, now, ret>>

\* handleEdit(person) on the i-th row
HandleEdit(i) ==
    /\ mounted /\ ~modalVisible
    /\ editingPerson' = people[i]
    /\ form' = parse(people[i].birthday)
    /\ modalVisible' = TRUE
    /\ UNCHANGED <<people, loading, mounted, store, listReqs, saveReqs, loads, now, ret>>

\* the modal's onCancel and the Cancel button
CancelModal ==
    /\ modalVisible
    /\ modalVisible' = FALSE
    /\ form' = NoValue
    /\ editingPerson' = NoPerson
    /\ UNCHANGED <<people, loading, mounted, store, listReqs, saveReqs, loads, now, ret>>

\* the user picks a date: the DatePicker holds it as a dayjs of the moment
PickBirthday(b) ==
    /\ modalVisible
    /\ form' = At(b.y, b.m, b.d, now.t)
    /\ UNCHANGED <<people, loading, modalVisible, editingPerson, mounted, store,
                   listReqs, saveReqs, loads, now, ret>>

\* handleSubmit up to its await (the form validated: birthday is required):
\* Person.update for an edited record, Person.create otherwise
HandleSubmit ==
    /\ modalVisible
    /\ form.ok
    /\ Len(saveReqs) < MaxSaveReqs
    /\ saveReqs' = Append(saveReqs,
            [kind |-> IF editingPerson # NoPerson THEN "update" ELSE "create",
             id |-> editingPerson.id,
             birthday |-> format(form),
             served |-> FALSE])
    /\ UNCHANGED <<people, loading, modalVisible, editingPerson, form, mounted,
                   store, listReqs, loads, now, ret>>

\* the backend applies the k-th save call in flight
ServeSave(k) ==
    LET r == saveReqs[k]
    IN  /\ ~r.served
        /\ r.kind = "create" => Len(store) < MaxStore
        /\ store' = IF r.kind = "create"
                    THEN Append(store, Person(Len(store) + 1, r.birthday))
                    ELSE [j \in 1..Len(store) |->
                            IF store[j].id = r.id THEN Person(r.id, r.birthday)
                            ELSE store[j]]
        /\ saveReqs' = [saveReqs EXCEPT ![k].served = TRUE]
        /\ UNCHANGED <<people, loading, modalVisible, editingPerson, form, mounted,
                       listReqs, loads, now, ret>>

\* handleSubmit after its await, on success: the modal is closed, the form
\* reset, and loadPeople() called
HandleSubmitSuccess(k) ==
    /\ saveReqs[k].served
    /\ CanLoad
    /\ saveReqs' = RemoveAt(saveReqs, k)
    /\ modalVisible' = FALSE
    /\ form' = NoValue
    /\ editingPerson' = NoPerson
    /\ LoadPeopleStart
    /\ UNCHANGED <<people, mounted, store, now, ret>>

\* handleSubmit after its await, on success = false or a rejection (caught):
\* nothing is changed
HandleSubmitFailure(k) ==
    /\ saveReqs' = RemoveAt(saveReqs, k)
    /\ UNCHANGED <<people, loading, modalVisible, editingPerson, form, mounted,
                   store, listReqs, loads, now, ret>>

\* handleDelete(id) on the i-th row, confirmed: logs, then loadPeople()
HandleDelete(i) ==
    /\ mounted /\ ~modalVisible
    /\ CanLoad
    /\ LoadPeopleStart
    /\ UNCHANGED <<people, modalVisible, editingPerson, form, mounted, store,
                   saveReqs, now, ret>>

Next ==
    \/ Mount
    \/ \E k \in 1..Len(listReqs) : ServeList(k)
    \/ \E k \in 1..Len(listReqs), outcome \in {"success", "failure", "throw"} :
            LoadPeopleDone(k, outcome)
    \/ ShowAdd
    \/ \E i \in 1..Len(people) : HandleEdit(i)
    \/ CancelModal
    \/ \E b \in FormDates : PickBirthday(b)
    \/ HandleSubmit
    \/ \E k \in 1..Len(saveReqs) : ServeSave(k)
    \/ \E k \in 1..Len(saveReqs) : HandleSubmitSuccess(k)
    \/ \E k \in 1..Len(saveReqs) : HandleSubmitFailure(k)
    \/ \E i \in 1..Len(people) : HandleDelete(i)

Spec == Init /\ [][Next]_vars

\* C9 (as stated): loading is true whenever a Person.list() call started by
\* loadPeople is still in flight.
C9_LoadingWhilePending == listReqs # <<>> => loading

\* C10 (as stated): once overlapping loadPeople calls have all completed
\* successfully, people holds the data returned to the most recently started
\* call.
C10_LatestLoadWins ==
    (listReqs = <<>> /\ loads.overlapped /\ ~loads.failed /\ loads.answered)
        => people = loads.lastData

====
